---- MODULE Spec2Model ----
(***************************************************************************)
(* Model of NFLPlayAnimator.add_z_coordinates (src/animator.py), the       *)
(* trajectory reconstruction of the 3D play animator.                      *)
(*                                                                         *)
(* The tracking table is a sequence of rows.  Frame ids are naturals.      *)
(* Real-valued columns are held as exact scaled integers:                  *)
(*   seconds_since_throw   in tenths of a second   (x 10)                  *)
(*   time_of_flight        in tenths of a second   (x 10)                  *)
(*   vz                    x 800                                           *)
(*   z                     x 8000                                          *)
(*   z1, z2                x 8000 * time_of_flight(tenths)                 *)
(* GRAVITY = 10.725 = 429 / 40, so every product above is an integer.      *)
(* IEEE rounding of the Python floats is not represented.                  *)
(***************************************************************************)
EXTENDS Integers, Sequences, FiniteSets, TLC

VARIABLES tracking_df, pc, outcome, pass_forward_frame, pass_arrived_frame,
          all_frames, seconds_since_throw, z, z1, z2, start_pos, end_pos,
          vel, metrics,
          mode, call_no, first_return, df_ref, input_added,
          field_calls, field_elements, loop_ids, frame_list, steps, fig

\* the state of one add_z_coordinates call
zvars == <<tracking_df, pc, outcome, pass_forward_frame, pass_arrived_frame,
           all_frames, seconds_since_throw, z, z1, z2, start_pos, end_pos,
           vel, metrics>>
\* the caller of add_z_coordinates and what it can observe of its table
cvars == <<mode, call_no, first_return, df_ref, input_added>>
\* the state of animate_play
avars == <<field_calls, field_elements, loop_ids, frame_list, steps, fig>>

vars == <<tracking_df, pc, outcome, pass_forward_frame, pass_arrived_frame,
          all_frames, seconds_since_throw, z, z1, z2, start_pos, end_pos,
          vel, metrics,
          mode, call_no, first_return, df_ref, input_added,
          field_calls, field_elements, loop_ids, frame_list, steps, fig>>

(* ---------------------------------------------------------------------- *)
(* Bounds of the input families                                           *)
(* ---------------------------------------------------------------------- *)
SmallFrames == 3
MaxLen == 60
MaxFirst == 1
MaxGap == 30
GapStart == 8
AnimFrames == 2

(* ---------------------------------------------------------------------- *)
(* Program constants                                                      *)
(* ---------------------------------------------------------------------- *)
\* self.GRAVITY = 10.725, held as 40 * GRAVITY
GRAVITY40 == 429
\* snap_frame + 10
ReleaseOffset == 10
\* pass_forward_frame + 20
ArrivalOffset == 20
\* the base height 2 of the primary band, held x 8000
BaseHeight8000 == 16000
\* the base heights 1.5 and 2.5 of the side bands, held x 8000
BaseHeightLow8000 == 12000
BaseHeightHigh8000 == 20000
\* the 0.5 yard in the numerators of vz1 and vz2, held x 8000
HalfYard8000 == 4000

arrival_events == {"pass_arrived", "pass_outcome_interception",
                   "pass_outcome_touchdown", "pass_outcome_caught",
                   "pass_outcome_incomplete"}

\* the result of Series.min() on an empty selection (frame ids are >= 0)
NaN == 0 - 1
\* a float nan/inf stored in a z1 / z2 cell (finite cells are >= 0)
NaNCell == 0 - 1
isna(v) == v = NaN

NoPos == [frameId |-> NaN, x |-> 0, y |-> 0]
NoVel == [time_of_flight |-> 0, distance2 |-> 0, vxy |-> "unset", vz |-> 0,
          vz1 |-> "unset", vz2 |-> "unset"]
NoMetrics == [set |-> FALSE]

(* ---------------------------------------------------------------------- *)
(* pandas helpers                                                         *)
(* ---------------------------------------------------------------------- *)
MinOf(S) == CHOOSE m \in S : \A n \in S : m <= n
MaxOf(S) == CHOOSE m \in S : \A n \in S : m >= n

\* variant: the ball rows are not filtered out of the table
football_data_unfiltered(df) == DOMAIN df

\* df[df['displayName'] == 'football'] as the set of selected row positions
football_data(df) == {i \in DOMAIN df : df[i].displayName = "football"}
player_data(df) == {i \in DOMAIN df : df[i].displayName # "football"}

\* football_data[<event test>]['frameId'].min()
FrameMin(df, rows) ==
    IF rows = {} THEN NaN ELSE MinOf({df[i].frameId : i \in rows})

LocateForward(df) ==
    FrameMin(df, {i \in football_data(df) : df[i].event = "pass_forward"})
LocateArrived(df) ==
    FrameMin(df, {i \in football_data(df) : df[i].event \in arrival_events})
LocateSnap(df) ==
    FrameMin(df, {i \in football_data(df) : df[i].event = "ball_snap"})

RECURSIVE SortedSeq(_)
SortedSeq(S) ==
    IF S = {} THEN <<>> ELSE <<MinOf(S)>> \o SortedSeq(S \ {MinOf(S)})

\* sorted(football_data['frameId'].unique())
AllFrames(df) == SortedSeq({df[i].frameId : i \in football_data(df)})

InFrames(f, frames) == \E i \in DOMAIN frames : frames[i] = f
Last(frames) == frames[Len(frames)]

\* football_data[football_data['frameId'] == f], as row positions
RowsAt(df, f) == {i \in football_data(df) : df[i].frameId = f}

(* ---------------------------------------------------------------------- *)
(* Input tables                                                           *)
(* ---------------------------------------------------------------------- *)
Row(name, f, e, px) ==
    [displayName |-> name, frameId |-> f, event |-> e, x |-> px, y |-> 0]

Reverse(s) == [i \in 1..Len(s) |-> s[Len(s) + 1 - i]]

\* Small tables: every frame 1..SmallFrames carries no ball row, one ball
\* row with any label, or two ball rows (a duplicated frame) labelled
\* release and arrival; one optional player row with any label.
SmallEvents == {"NA", "ball_snap", "pass_forward", "pass_arrived",
                "pass_outcome_caught"}
SmallCells == {<<>>} \cup {<<e>> : e \in SmallEvents}
                \cup {<<"pass_forward", "pass_arrived">>}
PlayerOpts == {<<>>} \cup
    {<<Row("QB", f, e, 0)>> : f \in 1..SmallFrames,
                              e \in {"NA", "pass_forward", "pass_arrived"}}

CellRows(cell, f) == [j \in 1..Len(cell) |-> Row("football", f, cell[j], f)]

RECURSIVE SmallBallRows(_, _)
SmallBallRows(cells, f) ==
    IF f = 0 THEN <<>>
    ELSE SmallBallRows(cells, f - 1) \o CellRows(cells[f], f)

SmallTables ==
    { IF rev THEN Reverse(SmallBallRows(cells, SmallFrames) \o plr)
             ELSE SmallBallRows(cells, SmallFrames) \o plr :
        cells \in [1..SmallFrames -> SmallCells],
        plr \in PlayerOpts, rev \in BOOLEAN }

\* Long tables: ball frames first..first+n-1 with the frames
\* first+gs .. first+gs+gl-1 removed, an optional snap label, optional
\* release / arrival labels, and an optional labelled player row.
GapLens == {0, 5, MaxGap}
SnapOffsets == {NaN, 0, 3}
LabelSets == { {},
               {<<"pass_forward", 2>>},
               {<<"pass_outcome_caught", 4>>},
               {<<"pass_forward", 20>>, <<"pass_arrived", 40>>,
                <<"pass_outcome_incomplete", 45>>} }

LongFrames(first, n, gs, gl) ==
    {f \in first..(first + n - 1) : ~(first + gs <= f /\ f < first + gs + gl)}

LongEvent(f, first, snapOff, labels) ==
    IF \E l \in labels : f = first + l[2]
    THEN (CHOOSE l \in labels : f = first + l[2])[1]
    ELSE IF snapOff # NaN /\ f = first + snapOff THEN "ball_snap" ELSE "NA"

LongBallRows(first, n, gs, gl, snapOff, labels) ==
    LET fs == SortedSeq(LongFrames(first, n, gs, gl))
    IN  [i \in 1..Len(fs) |->
            Row("football", fs[i], LongEvent(fs[i], first, snapOff, labels),
                fs[i])]

LongTables ==
    { LongBallRows(first, n, gs, gl, snapOff, labels) \o
      (IF plr THEN <<Row("QB", first + 1, "pass_arrived", 0)>> ELSE <<>>) :
        first \in 0..MaxFirst, n \in 1..MaxLen, gs \in {GapStart},
        gl \in GapLens, snapOff \in SnapOffsets, labels \in LabelSets,
        plr \in BOOLEAN }

Tables == SmallTables \cup LongTables

(* ---------------------------------------------------------------------- *)
(* State machine of add_z_coordinates                                     *)
(* ---------------------------------------------------------------------- *)
\* variant: df = tracking_df, the caller's table itself
df_object_alias == "input"

\* line 25: df = tracking_df.copy(), a new table object
df_object == "copy"
\* lines 65-70: the columns assigned on df
NewColumns == {"seconds_since_throw", "z", "z1", "z2"}

NoReturn == [outcome |-> "none"]
NoFig == [set |-> FALSE]

\* the locals of a call that has not started
FreshCall ==
    /\ pc = "start"
    /\ outcome = "running"
    /\ pass_forward_frame = NaN
    /\ pass_arrived_frame = NaN
    /\ all_frames = <<>>
    /\ seconds_since_throw = <<>>
    /\ z = <<>>
    /\ z1 = <<>>
    /\ z2 = <<>>
    /\ start_pos = NoPos
    /\ end_pos = NoPos
    /\ vel = NoVel
    /\ metrics = NoMetrics

\* no animation has been started
NoAnimation ==
    /\ field_calls = 0
    /\ field_elements = <<>>
    /\ loop_ids = <<>>
    /\ frame_list = <<>>
    /\ steps = <<>>
    /\ fig = NoFig

Init ==
    /\ tracking_df \in Tables
    /\ mode = "reconstruct"
    /\ call_no = 1
    /\ first_return = NoReturn
    /\ df_ref = "none"
    /\ input_added = {}
    /\ NoAnimation
    /\ pc = "start"
    /\ outcome = "running"
    /\ pass_forward_frame = NaN
    /\ pass_arrived_frame = NaN
    /\ all_frames = <<>>
    /\ seconds_since_throw = <<>>
    /\ z = <<>>
    /\ z1 = <<>>
    /\ z2 = <<>>
    /\ start_pos = NoPos
    /\ end_pos = NoPos
    /\ vel = NoVel
    /\ metrics = NoMetrics

\* lines 25-40: copy the table, select the ball rows, locate the release
\* and arrival events, branch on a missing one
Locate ==
    /\ pc = "start"
    /\ pass_forward_frame' = LocateForward(tracking_df)
    /\ pass_arrived_frame' = LocateArrived(tracking_df)
    /\ pc' = IF isna(LocateForward(tracking_df)) \/ isna(LocateArrived(tracking_df))
             THEN "estimate" ELSE "columns"
    /\ UNCHANGED <<tracking_df, outcome, all_frames, seconds_since_throw,
                   z, z1, z2, start_pos, end_pos, vel, metrics>>
    /\ df_ref' = df_object
    /\ UNCHANGED <<mode, call_no, first_return, input_added, avars>>

\* variant: the last frame stands in for a missing snap
SnapFrame_last(df, frames) ==
    IF isna(LocateSnap(df)) THEN frames[Len(frames)] ELSE LocateSnap(df)

\* the snap frame of lines 43-46; all_frames[0] is only evaluated when no
\* snap label exists
SnapFrame(df, frames) ==
    IF isna(LocateSnap(df)) THEN frames[1] ELSE LocateSnap(df)

\* lines 42-52: estimate both frames from the snap (or the first frame);
\* all_frames[0] on an empty list raises IndexError
Estimate ==
    /\ pc = "estimate"
    /\ all_frames' = AllFrames(tracking_df)
    /\ IF isna(LocateSnap(tracking_df)) /\ AllFrames(tracking_df) = <<>>
       THEN /\ pc' = "raised"
            /\ outcome' = "IndexError"
            /\ UNCHANGED <<pass_forward_frame, pass_arrived_frame>>
       ELSE /\ pass_forward_frame' =
                 SnapFrame(tracking_df, AllFrames(tracking_df)) + ReleaseOffset
            /\ pass_arrived_frame' =
                 SnapFrame(tracking_df, AllFrames(tracking_df)) + ReleaseOffset
                   + ArrivalOffset
            /\ pc' = "while_forward"
            /\ UNCHANGED outcome
    /\ UNCHANGED <<tracking_df, seconds_since_throw, z, z1, z2, start_pos,
                   end_pos, vel, metrics>>
    /\ UNCHANGED <<cvars, avars>>

\* the loop condition of lines 55 and 57
Searching(f, frames) == ~InFrames(f, frames) /\ f < Last(frames)

\* lines 55-56: one test of the loop, with its body when the test passes
WhileForward ==
    /\ pc = "while_forward"
    /\ IF Searching(pass_forward_frame, all_frames)
       THEN /\ pass_forward_frame' = pass_forward_frame + 1
            /\ pc' = "while_forward"
       ELSE /\ pc' = "while_arrived"
            /\ UNCHANGED pass_forward_frame
    /\ UNCHANGED <<tracking_df, outcome, pass_arrived_frame, all_frames,
                   seconds_since_throw, z, z1, z2, start_pos, end_pos, vel,
                   metrics>>
    /\ UNCHANGED <<cvars, avars>>

\* lines 57-58
WhileArrived ==
    /\ pc = "while_arrived"
    /\ IF Searching(pass_arrived_frame, all_frames)
       THEN /\ pass_arrived_frame' = pass_arrived_frame + 1
            /\ pc' = "while_arrived"
       ELSE /\ pc' = "clamp"
            /\ UNCHANGED pass_arrived_frame
    /\ UNCHANGED <<tracking_df, outcome, pass_forward_frame, all_frames,
                   seconds_since_throw, z, z1, z2, start_pos, end_pos, vel,
                   metrics>>
    /\ UNCHANGED <<cvars, avars>>

\* variant: both estimates must be out of range
OutOfRange_both(pf, pa, frames) == pf >= Last(frames) /\ pa >= Last(frames)

\* the test of line 60
OutOfRange(pf, pa, frames) == pf >= Last(frames) \/ pa >= Last(frames)

\* variant: the arrival is clamped to the one-third frame as well
TwoThirdsFrame_third(frames) == frames[(Len(frames) \div 3) + 1]

\* all_frames[len(all_frames)//3] and all_frames[2*len(all_frames)//3]
\* (Python indexes from 0, sequences from 1)
ThirdFrame(frames) == frames[(Len(frames) \div 3) + 1]
TwoThirdsFrame(frames) == frames[((2 * Len(frames)) \div 3) + 1]

\* lines 60-62
Clamp ==
    /\ pc = "clamp"
    /\ IF OutOfRange(pass_forward_frame, pass_arrived_frame, all_frames)
       THEN /\ pass_forward_frame' = ThirdFrame(all_frames)
            /\ pass_arrived_frame' = TwoThirdsFrame(all_frames)
       ELSE UNCHANGED <<pass_forward_frame, pass_arrived_frame>>
    /\ pc' = "columns"
    /\ UNCHANGED <<tracking_df, outcome, all_frames, seconds_since_throw,
                   z, z1, z2, start_pos, end_pos, vel, metrics>>
    /\ UNCHANGED <<cvars, avars>>

\* .iloc[0] of the ball rows at frame f: the first such row of the table
FirstRowAt(df, f) == MinOf(RowsAt(df, f))
PosOf(row) == [frameId |-> row.frameId, x |-> row.x, y |-> row.y]

\* lines 65-74: the new columns of the copy and the two end points;
\* .iloc[0] on an empty selection raises IndexError
Columns ==
    /\ pc = "columns"
    /\ seconds_since_throw' =
         [i \in DOMAIN tracking_df |-> tracking_df[i].frameId - pass_forward_frame]
    /\ z' = [i \in DOMAIN tracking_df |-> 0]
    /\ z1' = [i \in DOMAIN tracking_df |-> 0]
    /\ z2' = [i \in DOMAIN tracking_df |-> 0]
    /\ IF RowsAt(tracking_df, pass_forward_frame) = {}
          \/ RowsAt(tracking_df, pass_arrived_frame) = {}
       THEN /\ pc' = "raised"
            /\ outcome' = "IndexError"
            /\ UNCHANGED <<start_pos, end_pos>>
       ELSE /\ start_pos' =
                 PosOf(tracking_df[FirstRowAt(tracking_df, pass_forward_frame)])
            /\ end_pos' =
                 PosOf(tracking_df[FirstRowAt(tracking_df, pass_arrived_frame)])
            /\ pc' = "velocities"
            /\ UNCHANGED outcome
    /\ UNCHANGED <<tracking_df, pass_forward_frame, pass_arrived_frame,
                   all_frames, vel, metrics>>
    /\ input_added' = IF df_ref = "input" THEN input_added \cup NewColumns
                                         ELSE input_added
    /\ UNCHANGED <<mode, call_no, first_return, df_ref, avars>>

\* the square of line 77's distance
Distance2(p, q) == (p.x - q.x) * (p.x - q.x) + (p.y - q.y) * (p.y - q.y)

\* a numpy float division num / den of a non-negative num: no exception,
\* inf or nan on a zero divisor
FloatDiv(num, den) ==
    IF den # 0 THEN "finite" ELSE IF num = 0 THEN "nan" ELSE "inf"

\* variant: the division by 2 is missing
VerticalSpeed_undivided(tof) == tof * GRAVITY40 * 2

\* line 84: vz = (time_of_flight * GRAVITY) / 2, held x 800
VerticalSpeed(tof) == tof * GRAVITY40
\* lines 85-86: vz1 and vz2 are Vz1Num / (800 * tof), Vz2Num / (800 * tof)
Vz1Num(tof) == HalfYard8000 + GRAVITY40 * tof * tof
Vz2Num(tof) == GRAVITY40 * tof * tof - HalfYard8000

\* lines 76-90: distance, time of flight, the speeds; the divisions are
\* numpy float divisions and are performed whatever the divisor
Velocities ==
    /\ pc = "velocities"
    /\ vel' = [time_of_flight |-> pass_arrived_frame - pass_forward_frame,
               distance2 |-> Distance2(start_pos, end_pos),
               vxy |-> FloatDiv(Distance2(start_pos, end_pos),
                                pass_arrived_frame - pass_forward_frame),
               vz |-> VerticalSpeed(pass_arrived_frame - pass_forward_frame),
               vz1 |-> FloatDiv(1, pass_arrived_frame - pass_forward_frame),
               vz2 |-> FloatDiv(1, pass_arrived_frame - pass_forward_frame)]
    /\ pc' = "assign_z"
    /\ UNCHANGED <<tracking_df, outcome, pass_forward_frame,
                   pass_arrived_frame, all_frames, seconds_since_throw,
                   z, z1, z2, start_pos, end_pos, metrics>>
    /\ UNCHANGED <<cvars, avars>>

\* variant: the window has no upper end
flight_mask_open(df, i, pf, pa) == df[i].frameId >= pf

\* lines 93-94
football_mask(df, i) == df[i].displayName = "football"
flight_mask(df, i, pf, pa) == df[i].frameId >= pf /\ df[i].frameId <= pa

\* variant: the time is not squared
Height_linear(vz, t) == BaseHeight8000 + vz * t - GRAVITY40 * t

\* lines 97-100: 2 + vz * t - 0.5 * GRAVITY * t**2, held x 8000
\* (t in tenths, vz x 800)
Height(vz, t) == BaseHeight8000 + vz * t - GRAVITY40 * t * t
\* lines 102-110, held x 8000 * tof; inf * 0 is nan when tof = 0
SideHeight(base, num, tof, t) ==
    IF tof = 0 THEN NaNCell ELSE base * tof + num * t - GRAVITY40 * t * t * tof

\* lines 93-110: the three bands on the ball rows of the flight window
AssignZ ==
    /\ pc = "assign_z"
    /\ z' = [i \in DOMAIN tracking_df |->
               IF football_mask(tracking_df, i)
                  /\ flight_mask(tracking_df, i, pass_forward_frame, pass_arrived_frame)
               THEN Height(vel.vz, seconds_since_throw[i]) ELSE z[i]]
    /\ z1' = [i \in DOMAIN tracking_df |->
               IF football_mask(tracking_df, i)
                  /\ flight_mask(tracking_df, i, pass_forward_frame, pass_arrived_frame)
               THEN SideHeight(BaseHeightLow8000, Vz1Num(vel.time_of_flight),
                               vel.time_of_flight, seconds_since_throw[i])
               ELSE z1[i]]
    /\ z2' = [i \in DOMAIN tracking_df |->
               IF football_mask(tracking_df, i)
                  /\ flight_mask(tracking_df, i, pass_forward_frame, pass_arrived_frame)
               THEN SideHeight(BaseHeightHigh8000, Vz2Num(vel.time_of_flight),
                               vel.time_of_flight, seconds_since_throw[i])
               ELSE z2[i]]
    /\ pc' = "metrics"
    /\ UNCHANGED <<tracking_df, outcome, pass_forward_frame,
                   pass_arrived_frame, all_frames, seconds_since_throw,
                   start_pos, end_pos, vel, metrics>>
    /\ UNCHANGED <<cvars, avars>>

\* df['z'].max()
MaxHeight(zs) == MaxOf({zs[i] : i \in DOMAIN zs})

\* lines 112-129: the metrics dictionary and the return.  initial_velocity
\* and launch_angle are sqrt / arctan of the two speeds and are held as
\* the pair they are computed from.
Metrics ==
    /\ pc = "metrics"
    /\ metrics' = [set |-> TRUE,
                   initial_velocity |-> <<vel.vz, vel.vxy, vel.distance2>>,
                   horizontal_velocity |-> vel.vxy,
                   vertical_velocity |-> vel.vz,
                   launch_angle |-> <<vel.vz, vel.vxy, vel.distance2>>,
                   time_of_flight |-> vel.time_of_flight,
                   max_height |-> MaxHeight(z),
                   distance2 |-> vel.distance2,
                   start_x |-> start_pos.x, start_y |-> start_pos.y,
                   end_x |-> end_pos.x, end_y |-> end_pos.y,
                   pass_forward_frame |-> pass_forward_frame,
                   pass_arrived_frame |-> pass_arrived_frame]
    /\ outcome' = "returned"
    /\ pc' = "done"
    /\ UNCHANGED <<tracking_df, pass_forward_frame, pass_arrived_frame,
                   all_frames, seconds_since_throw, z, z1, z2, start_pos,
                   end_pos, vel>>
    /\ UNCHANGED <<cvars, avars>>

Next ==
    \/ Locate
    \/ Estimate
    \/ WhileForward
    \/ WhileArrived
    \/ Clamp
    \/ Columns
    \/ Velocities
    \/ AssignZ
    \/ Metrics

Spec == Init /\ [][Next]_vars

(* ---------------------------------------------------------------------- *)
(* Properties                                                             *)
(* ---------------------------------------------------------------------- *)
\* the release and arrival frames are final
Selected == pc \in {"columns", "velocities", "assign_z", "metrics", "done"}
Returned == pc = "done" /\ outcome = "returned"
IsBall(i) == tracking_df[i].displayName = "football"
BallRows == {i \in DOMAIN tracking_df : IsBall(i)}
BallFrameSet == {tracking_df[i].frameId : i \in BallRows}
HasBallEvent(evs) == \E i \in BallRows : tracking_df[i].event \in evs
\* the release label or the arrival label is absent from the ball track
FallbackTaken ==
    ~HasBallEvent({"pass_forward"}) \/ ~HasBallEvent(arrival_events)
InWindow(i) ==
    /\ tracking_df[i].frameId >= pass_forward_frame
    /\ tracking_df[i].frameId <= pass_arrived_frame
Abs(n) == IF n < 0 THEN 0 - n ELSE n

\* C1: after a return with a positive-duration window, every non-ball row
\* and every ball row outside [release, arrival] has z = 0, and every ball
\* row inside the window has z >= 2 (z is held x 8000).
C1_ZeroOutsideWindow ==
    (Returned /\ pass_forward_frame < pass_arrived_frame) =>
        \A i \in DOMAIN tracking_df :
            /\ ~IsBall(i) => z[i] = 0
            /\ (IsBall(i) /\ ~InWindow(i)) => z[i] = 0
            /\ (IsBall(i) /\ InWindow(i)) => z[i] >= 16000

C1_Witness ==
    /\ Returned
    /\ pass_forward_frame < pass_arrived_frame
    /\ \E i \in BallRows : tracking_df[i].frameId > pass_arrived_frame /\ z[i] = 0
    /\ \E i \in BallRows : tracking_df[i].frameId < pass_forward_frame /\ z[i] = 0
    /\ \E i \in BallRows : InWindow(i) /\ z[i] > 16000
    /\ \E i \in DOMAIN tracking_df : ~IsBall(i) /\ InWindow(i) /\ z[i] = 0

\* C2: a window of zero or negative duration ends in the DegenerateFlight
\* error: the divisions by the duration are never performed with a
\* duration <= 0 and nothing is returned.
C2_DegenerateFlightRaised ==
    /\ (pc \in {"assign_z", "metrics", "done"}) => vel.time_of_flight > 0
    /\ (Selected /\ pass_arrived_frame <= pass_forward_frame /\ pc = "done")
          => (outcome = "DegenerateFlight" /\ ~metrics.set /\ z = <<>>)

\* C3 (as stated): whenever the fallback chose the frames of a non-empty
\* ball track, release < arrival.
C3_FallbackWindowNonDegenerate ==
    (Selected /\ FallbackTaken) => pass_forward_frame < pass_arrived_frame

\* the ball frames are first..last without a gap
ContiguousTrack ==
    /\ BallFrameSet # {}
    /\ \A f \in MinOf(BallFrameSet)..MaxOf(BallFrameSet) : f \in BallFrameSet

\* C3 (amended): the fallback always gives release <= arrival, and
\* release < arrival when the ball track is contiguous and has at least
\* two distinct frames.
C3_FallbackWindowContiguous ==
    (Selected /\ FallbackTaken) =>
        /\ pass_forward_frame <= pass_arrived_frame
        /\ (ContiguousTrack /\ Cardinality(BallFrameSet) >= 2)
              => pass_forward_frame < pass_arrived_frame

C3_Witness ==
    /\ Returned
    /\ FallbackTaken
    /\ ContiguousTrack
    /\ Cardinality(BallFrameSet) = 2
    /\ pass_forward_frame < pass_arrived_frame

\* C4: with a release label and an arrival label on the ball track, the
\* release frame is the smallest ball frame labelled pass_forward and the
\* arrival frame the smallest ball frame carrying an arrival label; labels
\* of other rows do not count.
C4_EarliestLabelledFrames ==
    (pc # "start" /\ ~FallbackTaken) =>
        /\ \E i \in BallRows : /\ tracking_df[i].event = "pass_forward"
                               /\ tracking_df[i].frameId = pass_forward_frame
        /\ \A i \in BallRows : tracking_df[i].event = "pass_forward"
                                  => tracking_df[i].frameId >= pass_forward_frame
        /\ \E i \in BallRows : /\ tracking_df[i].event \in arrival_events
                               /\ tracking_df[i].frameId = pass_arrived_frame
        /\ \A i \in BallRows : tracking_df[i].event \in arrival_events
                                  => tracking_df[i].frameId >= pass_arrived_frame

C4_Witness ==
    /\ Returned
    /\ ~FallbackTaken
    /\ \E i \in BallRows : /\ tracking_df[i].event = "pass_forward"
                           /\ tracking_df[i].frameId > pass_forward_frame
    /\ \E i \in BallRows : /\ tracking_df[i].event \in arrival_events
                           /\ tracking_df[i].frameId > pass_arrived_frame
    /\ \E i \in DOMAIN tracking_df :
           /\ ~IsBall(i)
           /\ tracking_df[i].event \in arrival_events
           /\ tracking_df[i].frameId < pass_arrived_frame

\* the snap frame s of the fallback: the earliest ball_snap frame of the
\* ball, else the first ball frame
FallbackSnap ==
    IF HasBallEvent({"ball_snap"})
    THEN MinOf({tracking_df[i].frameId :
                   i \in {j \in BallRows : tracking_df[j].event = "ball_snap"}})
    ELSE MinOf(BallFrameSet)

\* C5: in the fallback, when s + 10 and s + 30 both lie within the ball
\* frame range, release = s + 10 and arrival = s + 30.
C5_EstimateWithinRange ==
    (Selected /\ FallbackTaken
        /\ FallbackSnap + 10 <= MaxOf(BallFrameSet)
        /\ FallbackSnap + 30 <= MaxOf(BallFrameSet))
    => (pass_forward_frame = FallbackSnap + 10
        /\ pass_arrived_frame = FallbackSnap + 30)

\* C6: in the fallback, when s + 10 or s + 30 lies beyond the last ball
\* frame, release and arrival are the elements at index floor(n/3) and
\* floor(2n/3) of the n sorted distinct ball frames, and both are frames
\* of the ball track.
C6_ClampToThirds ==
    (Selected /\ FallbackTaken
        /\ (FallbackSnap + 10 > MaxOf(BallFrameSet)
            \/ FallbackSnap + 30 > MaxOf(BallFrameSet)))
    => LET n == Cardinality(BallFrameSet)
           sorted == SortedSeq(BallFrameSet)
       IN  /\ pass_forward_frame = sorted[(n \div 3) + 1]
           /\ pass_arrived_frame = sorted[((2 * n) \div 3) + 1]
           /\ pass_forward_frame \in BallFrameSet
           /\ pass_arrived_frame \in BallFrameSet

C6_Witness ==
    /\ Returned
    /\ FallbackTaken
    /\ FallbackSnap + 10 <= MaxOf(BallFrameSet)
    /\ FallbackSnap + 30 > MaxOf(BallFrameSet)
    /\ Cardinality(BallFrameSet) >= 6
    /\ ~ContiguousTrack
    /\ pass_forward_frame < pass_arrived_frame

\* a play of 60 contiguous ball frames with no event label on any row
Scenario60 ==
    /\ Cardinality(BallFrameSet) = 60
    /\ ContiguousTrack
    /\ \A i \in DOMAIN tracking_df : tracking_df[i].event = "NA"

\* C7 (as stated): on the 60-frame play without labels the release frame
\* is 20 and the arrival frame is 40.
C7_SixtyFramesThirds ==
    (Selected /\ Scenario60) =>
        (pass_forward_frame = 20 /\ pass_arrived_frame = 40)

\* C7 (amended): on the 60-frame play without labels the release frame is
\* the first ball frame + 10 and the arrival frame the first ball
\* frame + 30; the thirds 20 and 40 are not used.
C7_SixtyFramesEstimate ==
    (Selected /\ Scenario60) =>
        /\ pass_forward_frame = MinOf(BallFrameSet) + 10
        /\ pass_arrived_frame = MinOf(BallFrameSet) + 30

C7_Witness ==
    /\ Returned
    /\ Scenario60
    /\ MinOf(BallFrameSet) = 0
    /\ pass_forward_frame = 10
    /\ pass_arrived_frame = 30
    /\ metrics.time_of_flight = 20

\* C8 (as stated): for a window r < a with N = a - r, vz = T * GRAVITY / 2,
\* every ball row of the window at k = frame - r has
\* 8000 * z = 16000 + 429 * k * (N - k) (so z = 2 at r and at a),
\* max_height is the largest z of the table, and for even N it is
\* 2 + GRAVITY * T^2 / 8 and is the z of the midpoint frame r + N / 2.
PeakAtMidpoint ==
    LET N == pass_arrived_frame - pass_forward_frame
    IN  /\ 4 * metrics.max_height = 64000 + 429 * N * N
        /\ \E i \in BallRows :
               /\ 2 * tracking_df[i].frameId = pass_forward_frame + pass_arrived_frame
               /\ z[i] = metrics.max_height

ParabolaOffsets ==
    LET N == pass_arrived_frame - pass_forward_frame
    IN  /\ metrics.vertical_velocity = 429 * N
        /\ \A i \in BallRows : InWindow(i) =>
               LET k == tracking_df[i].frameId - pass_forward_frame
               IN  z[i] = 16000 + 429 * k * (N - k)
        /\ \A i \in BallRows :
               tracking_df[i].frameId \in {pass_forward_frame, pass_arrived_frame}
                   => z[i] = 16000
        /\ \A i \in DOMAIN z : z[i] <= metrics.max_height
        /\ \E i \in DOMAIN z : z[i] = metrics.max_height

C8_ParabolaAndPeak ==
    (Returned /\ pass_forward_frame < pass_arrived_frame) =>
        /\ ParabolaOffsets
        /\ (pass_arrived_frame - pass_forward_frame) % 2 = 0 => PeakAtMidpoint

\* C8 (amended): as stated, except that max_height is 2 + GRAVITY * T^2 / 8
\* at the midpoint frame only when N is even and the ball has a row at the
\* midpoint frame.
C8_ParabolaAndPeakWhenPresent ==
    (Returned /\ pass_forward_frame < pass_arrived_frame) =>
        /\ ParabolaOffsets
        /\ ((pass_arrived_frame - pass_forward_frame) % 2 = 0
            /\ \E i \in BallRows :
                  2 * tracking_df[i].frameId = pass_forward_frame + pass_arrived_frame)
           => PeakAtMidpoint

\* release 20, arrival 40: vertical speed 10.725, peak 7.3625 at frame 30
C8_Witness ==
    /\ Returned
    /\ pass_forward_frame = 20
    /\ pass_arrived_frame = 40
    /\ metrics.vertical_velocity = 8580
    /\ metrics.max_height = 58900
    /\ \E i \in BallRows : tracking_df[i].frameId = 30 /\ z[i] = 58900

\* C9: for a window r < a, the ball's z at r + d equals its z at a - d, and
\* no ball frame of the window has a larger z than a ball frame at least
\* as near to the midpoint of [r, a].
C9_SymmetricParabola ==
    (Returned /\ pass_forward_frame < pass_arrived_frame) =>
        \A i, j \in BallRows : (InWindow(i) /\ InWindow(j)) =>
            /\ (tracking_df[i].frameId - pass_forward_frame
                  = pass_arrived_frame - tracking_df[j].frameId) => z[i] = z[j]
            /\ (Abs(2 * tracking_df[i].frameId - pass_forward_frame - pass_arrived_frame)
                  <= Abs(2 * tracking_df[j].frameId - pass_forward_frame - pass_arrived_frame))
               => z[i] >= z[j]

C9_Witness ==
    /\ Returned
    /\ pass_forward_frame < pass_arrived_frame
    /\ \E i, j \in BallRows :
         /\ tracking_df[i].frameId = pass_forward_frame + 3
         /\ tracking_df[j].frameId = pass_arrived_frame - 3
         /\ tracking_df[i].frameId < tracking_df[j].frameId
         /\ z[i] = z[j]
         /\ z[i] > 16000

\* C10: a table without a ball row ends in the MissingBallTrack error, with
\* no offsets and no metrics.
C10_MissingBallTrackRaised ==
    (BallRows = {} /\ pc \in {"raised", "done"}) =>
        /\ outcome = "MissingBallTrack"
        /\ z = <<>>
        /\ ~metrics.set

(* ---------------------------------------------------------------------- *)
(* Two calls of add_z_coordinates on the same table                       *)
(* ---------------------------------------------------------------------- *)
\* what a call hands back: (df, metrics) of line 129, or the exception
ReturnValue ==
    [outcome |-> outcome,
     seconds_since_throw |-> seconds_since_throw,
     z |-> z, z1 |-> z1, z2 |-> z2,
     metrics |-> metrics]

InitTwice ==
    /\ tracking_df \in Tables
    /\ mode = "twice"
    /\ call_no = 1
    /\ first_return = NoReturn
    /\ df_ref = "none"
    /\ input_added = {}
    /\ NoAnimation
    /\ FreshCall

\* the caller keeps the first result and calls again with the same table;
\* the locals of the second call are new
CallAgain ==
    /\ mode = "twice"
    /\ call_no = 1
    /\ pc \in {"done", "raised"}
    /\ first_return' = ReturnValue
    /\ call_no' = 2
    /\ df_ref' = "none"
    /\ pc' = "start"
    /\ outcome' = "running"
    /\ pass_forward_frame' = NaN
    /\ pass_arrived_frame' = NaN
    /\ all_frames' = <<>>
    /\ seconds_since_throw' = <<>>
    /\ z' = <<>>
    /\ z1' = <<>>
    /\ z2' = <<>>
    /\ start_pos' = NoPos
    /\ end_pos' = NoPos
    /\ vel' = NoVel
    /\ metrics' = NoMetrics
    /\ UNCHANGED <<tracking_df, mode, input_added, avars>>

NextTwice ==
    \/ Locate
    \/ Estimate
    \/ WhileForward
    \/ WhileArrived
    \/ Clamp
    \/ Columns
    \/ Velocities
    \/ AssignZ
    \/ Metrics
    \/ CallAgain

SpecTwice == InitTwice /\ [][NextTwice]_vars

Primitive(kind, name, xs, ys, zs, text, hover) ==
    [kind |-> kind, name |-> name, xs |-> xs, ys |-> ys, zs |-> zs,
     text |-> text, hover |-> hover]

\* animator.py _create_grid and the go.Mesh3d built from it
Mesh3d(color, x_min, x_max, y_min, y_max, z_val) ==
    Primitive("field", color,
              <<x_min, x_min, x_max, x_max>>, <<y_min, y_max, y_max, y_min>>,
              <<z_val, z_val, z_val, z_val>>, <<>>, <<>>)

\* animator.py create_field_surface: field, two endzones, the yard lines
\* range(10, 111, 5), the two hash bands range(10, 111)
create_field_surface ==
    <<Mesh3d("green", 1000, 11000, 0, 5330, 0),
      Mesh3d("blue", 0, 1000, 0, 5330, 0),
      Mesh3d("red", 11000, 12000, 0, 5330, 0)>>
    \o [i \in 1..21 |->
          Mesh3d("white", (5 + 5 * i) * 100 - 10, (5 + 5 * i) * 100 + 10,
                 0, 5330, 10)]
    \o [i \in 1..101 |->
          Mesh3d("white", (9 + i) * 100 - 10, (9 + i) * 100 + 10,
                 2250, 2350, 10)]
    \o [i \in 1..101 |->
          Mesh3d("white", (9 + i) * 100 - 10, (9 + i) * 100 + 10,
                 2875, 2975, 10)]

\* a 2D go.Scatter of the field
FieldScatter(name, xs, ys) == Primitive("field", name, xs, ys, <<>>, <<>>, <<>>)

\* 2d.py create_field_markers
create_field_markers ==
    <<FieldScatter("field", <<0, 12000, 12000, 0, 0>>, <<0, 0, 5330, 5330, 0>>),
      FieldScatter("left_endzone", <<0, 1000, 1000, 0, 0>>, <<0, 0, 5330, 5330, 0>>),
      FieldScatter("right_endzone", <<11000, 12000, 12000, 11000, 11000>>,
                   <<0, 0, 5330, 5330, 0>>)>>
    \o [i \in 1..21 |->
          FieldScatter("yard_line", <<(5 + 5 * i) * 100, (5 + 5 * i) * 100>>,
                       <<0, 5330>>)]
    \o [i \in 1..101 |->
          FieldScatter("hash", <<(9 + i) * 100, (9 + i) * 100>>, <<2250, 2350>>)]
    \o [i \in 1..101 |->
          FieldScatter("hash", <<(9 + i) * 100, (9 + i) * 100>>, <<2980, 3080>>)]
    \o <<FieldScatter("sidelines", <<0, 12000, 12000, 0, 0>>,
                      <<0, 0, 5330, 5330, 0>>)>>

(* ---------------------------------------------------------------------- *)
(* animate_play: input tables                                             *)
(* ---------------------------------------------------------------------- *)
\* a tracking row with its identity columns; "NA" is a null club or name,
\* NaN a null nflId
ARow(name, club, nflId, jersey, e, px) ==
    [displayName |-> name, club |-> club, nflId |-> nflId,
     jerseyNumber |-> jersey, frameId |-> 0, event |-> e, x |-> px, y |-> 0]

\* the one-row play_df
play_df == [absoluteYardlineNumber |-> 35, yardsToGo |-> 10, down |-> 1]

\* the rows one frame can carry: players of two clubs in either order, a
\* player without a name, a player without a club, a player without an
\* nflId, ball rows with and without a club, a ball row carrying an nflId
AnimCells ==
    { <<>>,
      <<ARow("Mahomes", "KC", 11, 15, "NA", 10),
        ARow("football", "football", NaN, NaN, "NA", 50)>>,
      <<ARow("football", "football", NaN, NaN, "pass_forward", 50),
        ARow("Mahomes", "KC", 11, 15, "pass_forward", 10),
        ARow("Bosa", "SF", 21, 97, "pass_forward", 40)>>,
      <<ARow("Mahomes", "KC", 11, 15, "pass_arrived", 10),
        ARow("Bosa", "SF", 21, 97, "pass_arrived", 40),
        ARow("football", "NA", NaN, NaN, "pass_arrived", 60)>>,
      <<ARow("Mahomes", "KC", 11, 15, "NA", 10),
        ARow("NA", "KC", 12, 87, "NA", 20),
        ARow("Kelce", "KC", 13, 88, "NA", 30),
        ARow("football", "football", NaN, NaN, "NA", 50)>>,
      <<ARow("Warner", "NA", 22, 54, "NA", 45),
        ARow("Mahomes", "KC", 11, 15, "NA", 10)>>,
      <<ARow("Mahomes", "KC", NaN, 15, "NA", 10),
        ARow("football", "NA", NaN, NaN, "NA", 50)>>,
      <<ARow("Bosa", "SF", 21, 97, "NA", 40),
        ARow("Mahomes", "KC", 11, 15, "NA", 10),
        ARow("Warner", "SF", 22, 54, "NA", 45),
        ARow("football", "football", NaN, NaN, "ball_snap", 50)>>,
      <<ARow("Mahomes", "KC", 11, 15, "NA", 10),
        ARow("football", "football", 99, NaN, "NA", 50)>> }

Stamp(cell, f) == [j \in 1..Len(cell) |-> [cell[j] EXCEPT !.frameId = f]]

RECURSIVE AnimRows(_, _)
AnimRows(cells, f) ==
    IF f = 0 THEN <<>> ELSE AnimRows(cells, f - 1) \o Stamp(cells[f], f)

AnimTables ==
    { IF rev THEN Reverse(AnimRows(cells, AnimFrames))
             ELSE AnimRows(cells, AnimFrames) :
        cells \in [1..AnimFrames -> AnimCells], rev \in BOOLEAN }

(* ---------------------------------------------------------------------- *)
(* animate_play: frame assembly                                           *)
(* ---------------------------------------------------------------------- *)
\* sorted(tracking_df.frameId.unique())
FrameIds(df) == SortedSeq({df[i].frameId : i \in DOMAIN df})

\* tracking_df[tracking_df.frameId == frameId], as row positions in order
frame_data(df, f) == SortedSeq({i \in DOMAIN df : df[i].frameId = f})

\* Series.unique(): the values in order of first appearance, nulls included
RECURSIVE Unique(_)
Unique(vals) ==
    IF vals = <<>> THEN <<>>
    ELSE LET init == Unique(SubSeq(vals, 1, Len(vals) - 1))
             v == vals[Len(vals)]
         IN  IF \E k \in DOMAIN init : init[k] = v THEN init ELSE Append(init, v)

\* the clubs the loops of 2d.py:195-197 and animator.py:180-182 visit
Clubs(df, fd) ==
    LET NotNull(c) == c # "NA"
    IN  SelectSeq(Unique([k \in DOMAIN fd |-> df[fd[k]].club]), NotNull)

\* frame_data[(club == team) & (displayName != 'football')]
TeamRows(df, fd, team) ==
    LET Keep(i) == df[i].club = team /\ df[i].displayName # "football"
    IN  SelectSeq(fd, Keep)

\* the hover_text list: rows with a null displayName are left out
HoverText(df, rows) ==
    LET Named(i) == df[i].displayName # "NA"
        named == SelectSeq(rows, Named)
    IN  [k \in DOMAIN named |->
           [name |-> df[named[k]].displayName,
            jersey |-> df[named[k]].jerseyNumber]]

Column(df, rows, col) == [k \in DOMAIN rows |-> df[rows[k]][col]]

\* animator.py:184-211, one go.Scatter3d per club; team_data['z'] = 1
\* (z x 8000)
TeamTrace3D(df, fd, team) ==
    LET rows == TeamRows(df, fd, team)
    IN  Primitive("team", team, Column(df, rows, "x"), Column(df, rows, "y"),
                  [k \in DOMAIN rows |-> 8000],
                  Column(df, rows, "jerseyNumber"), HoverText(df, rows))

\* 2d.py:199-225, one go.Scatter per club
TeamTrace2D(df, fd, team) ==
    LET rows == TeamRows(df, fd, team)
    IN  Primitive("team", team, Column(df, rows, "x"), Column(df, rows, "y"),
                  <<>>, <<>>, HoverText(df, rows))

\* animator.py:160: the ball rows are the rows named 'football'
BallRows3D(df, fd) ==
    LET IsFootball(i) == df[i].displayName = "football"
    IN  SelectSeq(fd, IsFootball)

\* 2d.py:227: the ball rows are the rows with a null nflId
BallRows2D(df, fd) ==
    LET NoId(i) == df[i].nflId = NaN
    IN  SelectSeq(fd, NoId)

\* animator.py:161-177
BallTrace3D(df, zcol, rows) ==
    Primitive("ball", "football", Column(df, rows, "x"), Column(df, rows, "y"),
              [k \in DOMAIN rows |-> zcol[rows[k]]], <<>>, <<>>)

\* 2d.py:228-243
BallTrace2D(df, rows) ==
    Primitive("ball", "football", Column(df, rows, "x"), Column(df, rows, "y"),
              <<>>, <<>>, <<>>)

\* animator.py:157-211: the ball first, then the clubs
frame_traces(df, zcol, f) ==
    LET fd == frame_data(df, f)
        clubs == Clubs(df, fd)
    IN  (IF BallRows3D(df, fd) # <<>>
         THEN <<BallTrace3D(df, zcol, BallRows3D(df, fd))>> ELSE <<>>)
        \o [k \in DOMAIN clubs |-> TeamTrace3D(df, fd, clubs[k])]

\* variant: the field stays in the base figure only
FrameData3D_bare(traces, field) == traces

\* animator.py:227: data = frame_traces + field_surfaces
FrameData3D(traces, field) == traces \o field

\* 2d.py:177-189: the line of scrimmage and the first-down line
ScrimmageLines(play) ==
    <<Primitive("los", "line_of_scrimmage",
                <<play.absoluteYardlineNumber * 100, play.absoluteYardlineNumber * 100>>,
                <<0, 5330>>, <<>>, <<>>, <<>>),
      Primitive("los", "first_down",
                <<(play.absoluteYardlineNumber + play.yardsToGo) * 100,
                  (play.absoluteYardlineNumber + play.yardsToGo) * 100>>,
                <<0, 5330>>, <<>>, <<>>, <<>>)>>

\* 2d.py:174-243: a copy of the field, the two lines, the clubs, the ball
FrameData2D(field, play, df, f) ==
    LET fd == frame_data(df, f)
        clubs == Clubs(df, fd)
    IN  field \o ScrimmageLines(play)
        \o [k \in DOMAIN clubs |-> TeamTrace2D(df, fd, clubs[k])]
        \o (IF BallRows2D(df, fd) # <<>>
            THEN <<BallTrace2D(df, BallRows2D(df, fd))>> ELSE <<>>)

\* the slider step of animator.py:214-223 and 2d.py:245-254
SliderStep(f) == [args |-> f, label |-> f, method |-> "animate"]
\* go.Frame(data = ..., name = str(frameId))
Frame(data, f) == [data |-> data, name |-> f]

(* ---------------------------------------------------------------------- *)
(* animate_play: state machine                                            *)
(* ---------------------------------------------------------------------- *)
\* the 3D animator starts with its call of add_z_coordinates (line 134),
\* the 2D animator at 2d.py:148
InitAnimate ==
    /\ tracking_df \in AnimTables
    /\ mode \in {"2d", "3d"}
    /\ call_no = 1
    /\ first_return = NoReturn
    /\ df_ref = "none"
    /\ input_added = {}
    /\ NoAnimation
    /\ pc = (IF mode = "3d" THEN "start" ELSE "animate2d")
    /\ outcome = "running"
    /\ pass_forward_frame = NaN
    /\ pass_arrived_frame = NaN
    /\ all_frames = <<>>
    /\ seconds_since_throw = <<>>
    /\ z = <<>>
    /\ z1 = <<>>
    /\ z2 = <<>>
    /\ start_pos = NoPos
    /\ end_pos = NoPos
    /\ vel = NoVel
    /\ metrics = NoMetrics

\* animator.py:134-153: add_z_coordinates has returned; play info, the
\* controls, the base figure with the field surfaces, the frame loop's list
Prepare3D ==
    /\ mode = "3d"
    /\ pc = "done"
    /\ field_calls' = field_calls + 1
    /\ field_elements' = create_field_surface
    /\ loop_ids' = FrameIds(tracking_df)
    /\ frame_list' = <<>>
    /\ steps' = <<>>
    /\ pc' = "loop3d"
    /\ UNCHANGED <<tracking_df, outcome, pass_forward_frame,
                   pass_arrived_frame, all_frames, seconds_since_throw,
                   z, z1, z2, start_pos, end_pos, vel, metrics, cvars, fig>>

\* animator.py:154-229: one iteration of the frame loop
Frame3D ==
    /\ pc = "loop3d"
    /\ loop_ids # <<>>
    /\ steps' = Append(steps, SliderStep(Head(loop_ids)))
    /\ frame_list' =
         Append(frame_list,
                Frame(FrameData3D(frame_traces(tracking_df, z, Head(loop_ids)),
                                  field_elements),
                      Head(loop_ids)))
    /\ loop_ids' = Tail(loop_ids)
    /\ UNCHANGED <<zvars, cvars, field_calls, field_elements, fig>>

\* animator.py:231-268: the title with the metrics, the layout with the
\* slider, fig.frames = frames
Finish3D ==
    /\ pc = "loop3d"
    /\ loop_ids = <<>>
    /\ fig' = [set |-> TRUE,
               data |-> field_elements,
               frames |-> frame_list,
               steps |-> steps,
               title |-> <<metrics.launch_angle, metrics.initial_velocity,
                           metrics.max_height>>]
    /\ pc' = "shown"
    /\ UNCHANGED <<tracking_df, outcome, pass_forward_frame,
                   pass_arrived_frame, all_frames, seconds_since_throw,
                   z, z1, z2, start_pos, end_pos, vel, metrics, cvars,
                   field_calls, field_elements, loop_ids, frame_list, steps>>

\* 2d.py:148-169: gameId = tracking_df.gameId.iloc[0] raises IndexError on
\* an empty table; else the play info, the controls, the field markers
Prepare2D ==
    /\ mode = "2d"
    /\ pc = "animate2d"
    /\ IF tracking_df = <<>>
       THEN /\ pc' = "raised"
            /\ outcome' = "IndexError"
            /\ UNCHANGED <<field_calls, field_elements, loop_ids>>
       ELSE /\ field_calls' = field_calls + 1
            /\ field_elements' = create_field_markers
            /\ loop_ids' = FrameIds(tracking_df)
            /\ pc' = "loop2d"
            /\ UNCHANGED outcome
    /\ UNCHANGED <<tracking_df, pass_forward_frame, pass_arrived_frame,
                   all_frames, seconds_since_throw, z, z1, z2, start_pos,
                   end_pos, vel, metrics, cvars, frame_list, steps, fig>>

\* 2d.py:172-256: one iteration of the frame loop
Frame2D ==
    /\ pc = "loop2d"
    /\ loop_ids # <<>>
    /\ steps' = Append(steps, SliderStep(Head(loop_ids)))
    /\ frame_list' =
         Append(frame_list,
                Frame(FrameData2D(field_elements, play_df, tracking_df,
                                  Head(loop_ids)),
                      Head(loop_ids)))
    /\ loop_ids' = Tail(loop_ids)
    /\ UNCHANGED <<zvars, cvars, field_calls, field_elements, fig>>

\* 2d.py:259-324: the layout with the slider, then
\* go.Figure(data = frames[0]["data"], frames = frames[1:])
Finish2D ==
    /\ pc = "loop2d"
    /\ loop_ids = <<>>
    /\ IF frame_list = <<>>
       THEN /\ pc' = "raised"
            /\ outcome' = "IndexError"
            /\ UNCHANGED fig
       ELSE /\ fig' = [set |-> TRUE,
                       data |-> frame_list[1].data,
                       frames |-> Tail(frame_list),
                       steps |-> steps,
                       title |-> <<>>]
            /\ pc' = "shown"
            /\ UNCHANGED outcome
    /\ UNCHANGED <<tracking_df, pass_forward_frame, pass_arrived_frame,
                   all_frames, seconds_since_throw, z, z1, z2, start_pos,
                   end_pos, vel, metrics, cvars, field_calls, field_elements,
                   loop_ids, frame_list, steps>>

NextAnimate ==
    \/ Locate
    \/ Estimate
    \/ WhileForward
    \/ WhileArrived
    \/ Clamp
    \/ Columns
    \/ Velocities
    \/ AssignZ
    \/ Metrics
    \/ Prepare3D
    \/ Frame3D
    \/ Finish3D
    \/ Prepare2D
    \/ Frame2D
    \/ Finish2D

SpecAnimate == InitAnimate /\ [][NextAnimate]_vars

(* ---------------------------------------------------------------------- *)
(* Properties of animate_play                                             *)
(* ---------------------------------------------------------------------- *)
Assembling == pc \in {"loop2d", "loop3d", "shown"}
Shown == pc = "shown" /\ fig.set
FieldOf(data) ==
    LET IsField(p) == p.kind = "field" IN SelectSeq(data, IsField)
MovingOf(data) ==
    LET IsMoving(p) == p.kind \in {"team", "ball"} IN SelectSeq(data, IsMoving)
RowsOfFrame(f) == {i \in DOMAIN tracking_df : tracking_df[i].frameId = f}
SeqRange(q) == {q[k] : k \in DOMAIN q}

\* C12: the field builder is called once per animation (226 surfaces in
\* 3D, 227 shapes in 2D), and the field primitives of every assembled
\* frame, of every frame of the figure and of the figure's own data are
\* that one list, in its order, whatever the frame.
C12_FieldBuiltOnceSameInEveryFrame ==
    /\ field_calls <= 1
    /\ Assembling =>
         /\ field_calls = 1
         /\ Len(field_elements) = (IF mode = "3d" THEN 226 ELSE 227)
         /\ \A k \in DOMAIN frame_list :
                FieldOf(frame_list[k].data) = field_elements
    /\ Shown =>
         /\ FieldOf(fig.data) = field_elements
         /\ \A k \in DOMAIN fig.frames :
                FieldOf(fig.frames[k].data) = field_elements

C12_Witness ==
    /\ Shown
    /\ mode = "3d"
    /\ Len(fig.frames) = 2
    /\ MovingOf(fig.frames[1].data) # MovingOf(fig.frames[2].data)
    /\ Len(MovingOf(fig.frames[1].data)) # Len(MovingOf(fig.frames[2].data))
    /\ FieldOf(fig.frames[1].data) = FieldOf(fig.frames[2].data)
    /\ Len(FieldOf(fig.frames[2].data)) = 226

\* C13: the figure carries one animation frame per distinct frame id of
\* the table in ascending order, the slider one step per frame id in the
\* same order, and every step targets a frame of the figure.
C13_OneFramePerFrameId ==
    Shown =>
        LET ids == FrameIds(tracking_df)
        IN  /\ [k \in DOMAIN fig.frames |-> fig.frames[k].name] = ids
            /\ [k \in DOMAIN fig.steps |-> fig.steps[k].label] = ids
            /\ [k \in DOMAIN fig.steps |-> fig.steps[k].args] = ids
            /\ \A k \in DOMAIN fig.steps :
                   \E j \in DOMAIN fig.frames :
                       fig.frames[j].name = fig.steps[k].args

\* C14: in every assembled frame the moving primitives are the team
\* groups, one per distinct non-null club of the frame's non-ball rows and
\* none for the ball, followed by at most one ball marker; no team group
\* comes after the ball marker and no row is in a team group and in the
\* ball marker (rows of a frame are told apart by their x).
C14_TeamsThenBall ==
    Assembling =>
        \A k \in DOMAIN frame_list :
            LET moving == MovingOf(frame_list[k].data)
                rows == RowsOfFrame(frame_list[k].name)
                teams == {tracking_df[i].club :
                            i \in {j \in rows :
                                     /\ tracking_df[j].displayName # "football"
                                     /\ tracking_df[j].club # "NA"}}
                groups == {i \in DOMAIN moving : moving[i].kind = "team"}
                balls == {i \in DOMAIN moving : moving[i].kind = "ball"}
            IN  /\ Cardinality(balls) <= 1
                /\ \A b \in balls : \A g \in groups : g < b
                /\ {moving[g].name : g \in groups} = teams
                /\ Cardinality(groups) = Cardinality(teams)
                /\ \A b \in balls : \A g \in groups :
                       SeqRange(moving[b].xs) \cap SeqRange(moving[g].xs) = {}

\* C15: a row with a null club or a null displayName puts no marker into a
\* team group, and in every team group the hover texts are as many as the
\* markers and the i-th hover text is that of the i-th marker's row.
C15_HoverAlignedWithMarkers ==
    Assembling =>
        \A k \in DOMAIN frame_list :
            LET data == frame_list[k].data
                rows == RowsOfFrame(frame_list[k].name)
            IN  \A g \in DOMAIN data : data[g].kind = "team" =>
                    /\ Len(data[g].hover) = Len(data[g].xs)
                    /\ \A i \in DOMAIN data[g].xs :
                           /\ i \in DOMAIN data[g].hover
                           /\ \E r \in rows :
                                 /\ tracking_df[r].x = data[g].xs[i]
                                 /\ tracking_df[r].displayName = data[g].hover[i].name
                                 /\ tracking_df[r].jerseyNumber = data[g].hover[i].jersey
                    /\ \A r \in rows :
                           (tracking_df[r].club = "NA"
                              \/ tracking_df[r].displayName = "NA")
                           => tracking_df[r].x \notin SeqRange(data[g].xs)

====
